---- MODULE Spec2Model ----
(***************************************************************************)
(* A model of the Windows service layer of the repository: the status     *)
(* model and its marshaling (mullvad-service/src/service.rs), the          *)
(* control-handler bridge (windows-service/src/service_control_handler.rs) *)
(* and the example service built on them                                   *)
(* (windows-service/examples/simple_service.rs).                           *)
(*                                                                         *)
(* The specifications share the variables; the main ones are:             *)
(*   SpecStatus  the value types: encoders, decoders, builders and the     *)
(*               status report to the OS;                                  *)
(*   Spec        a running service: handle_service_main, the registration  *)
(*               of the control handler and the OS control dispatch;       *)
(*   SpecRemove  the remove-service flow and its poll loop.                *)
(***************************************************************************)
EXTENDS Integers, Sequences, FiniteSets, TLC

VARIABLES
    \* value types and the status report
    call,          \* the last application of a value-type operation: [fn, arg, out]
    held,          \* the ServiceStatus value the application holds (Option)
    transmitted,   \* the raw SERVICE_STATUS the OS last received (Option)
    \* a running service
    pc,            \* where the entry thread is in handle_service_main
    proc,          \* "running", or "crashed" once a callback panicked or faulted
    context,       \* the opaque context the OS holds for the trampoline (Option)
    handlerAt,     \* where the ServiceControlHandler value lives
    ctxMem,        \* the memory the context points to: [state, status_handle]
    closureMem,    \* the memory of the handler closure and its shutdown_sender
    queue,         \* messages in the shutdown channel not yet received
    signals,       \* the controls whose handling sent on the shutdown channel
    events,        \* the number of control events the OS has delivered
    lastEvent,     \* what the last trampoline invocation saw and did (Option)
    \* the remove-service flow
    rpc,           \* where remove_service is
    scm,           \* the registry handle: "none", "open" or "closed"
    svc,           \* the service handle: "none", "open" or "closed"
    osState,       \* the run state the OS has for the service
    osDeleted,     \* the OS has marked the service entry for removal
    trace          \* the OS calls remove_service has made, with their results

statusVars == <<call, held, transmitted>>
handlerVars ==
    <<pc, proc, context, handlerAt, ctxMem, closureMem, queue, signals, events,
      lastEvent>>
removeVars == <<rpc, scm, svc, osState, osDeleted, trace>>
vars == <<statusVars, handlerVars, removeVars>>

(***************************************************************************)
(* Bounds of the model.                                                    *)
(***************************************************************************)
\* raw codes 0..MaxCode are enumerated beside the codes the program names
MaxCode == 16
\* checkpoints 0..MaxCheckpoint
MaxCheckpoint == 2
\* control events the OS delivers to one service process
MaxEvents == 3
\* polls of the remove-service loop
MaxPolls == 3
\* the length of a launch argument, in characters
MaxArgLen == 4
\* the per-string bound on the length of a decoded service argument, in units
ArgBound == 2
\* the service arguments the OS passes to service_main
MaxArgs == 2
\* the launch arguments of a service that is created
MaxLaunchArgs == 2

(***************************************************************************)
(* Constants of the OS interface (winapi), by the line that uses them.     *)
(***************************************************************************)
SERVICE_STOPPED == 1
SERVICE_START_PENDING == 2
SERVICE_STOP_PENDING == 3
SERVICE_RUNNING == 4
SERVICE_CONTINUE_PENDING == 5
SERVICE_PAUSE_PENDING == 6
SERVICE_PAUSED == 7

SERVICE_CONTROL_STOP == 1
SERVICE_CONTROL_PAUSE == 2
SERVICE_CONTROL_CONTINUE == 3
SERVICE_CONTROL_INTERROGATE == 4
SERVICE_CONTROL_SHUTDOWN == 5
SERVICE_CONTROL_PARAMCHANGE == 6
SERVICE_CONTROL_NETBINDADD == 7
SERVICE_CONTROL_NETBINDREMOVE == 8
SERVICE_CONTROL_NETBINDENABLE == 9
SERVICE_CONTROL_NETBINDDISABLE == 10
SERVICE_CONTROL_PRESHUTDOWN == 15

SERVICE_ACCEPT_STOP == 1
SERVICE_ACCEPT_PAUSE_CONTINUE == 2
SERVICE_ACCEPT_SHUTDOWN == 4
SERVICE_ACCEPT_PARAMCHANGE == 8
SERVICE_ACCEPT_NETBINDCHANGE == 16
SERVICE_ACCEPT_PRESHUTDOWN == 256

SERVICE_WIN32_OWN_PROCESS == 16

ERROR_SERVICE_SPECIFIC_ERROR == 1066
ERROR_CALL_NOT_IMPLEMENTED == 120
NO_ERROR == 0

\* winnt.h: the error-control codes of CreateServiceW
SERVICE_ERROR_IGNORE == 0
SERVICE_ERROR_NORMAL == 1
SERVICE_ERROR_SEVERE == 2
SERVICE_ERROR_CRITICAL == 3

\* shell_escape.rs, mod ucs2
DOUBLEQUOTE == 34
BACKSLASH == 92
SPACE == 32
LINEFEED == 10
HTAB == 9
VTAB == 11

(***************************************************************************)
(* Option and Result values.  An Option is a sequence of length at most 1. *)
(***************************************************************************)
None == <<>>
Some(x) == <<x>>
IsSome(o) == Len(o) = 1
Unwrap(o) == o[1]

Ok(v) == [ok |-> TRUE, val |-> v, err |-> <<>>]
Err(kind, code) == [ok |-> FALSE, val |-> <<>>, err |-> <<kind, code>>]

\* (raw & bit) != 0 for a single-bit mask
HasBit(raw, bit) == (raw \div bit) % 2 = 1

(***************************************************************************)
(* ServiceType                                                             *)
(***************************************************************************)
ServiceTypes == {"OwnProcess"}

ServiceType_to_raw(t) == SERVICE_WIN32_OWN_PROCESS

ServiceType_from_raw(raw_value) ==
    IF raw_value = ServiceType_to_raw("OwnProcess")
    THEN Ok("OwnProcess")
    ELSE Err("InvalidServiceType", raw_value)

(***************************************************************************)
(* ServiceState                                                            *)
(***************************************************************************)
ServiceStates ==
    {"Stopped", "StartPending", "StopPending", "Running",
     "ContinuePending", "PausePending", "Paused"}

\* a slip in the enum's discriminants: Paused given the code of PausePending
ServiceState_to_raw_aliased(s) ==
    CASE s = "Stopped" -> SERVICE_STOPPED
      [] s = "StartPending" -> SERVICE_START_PENDING
      [] s = "StopPending" -> SERVICE_STOP_PENDING
      [] s = "Running" -> SERVICE_RUNNING
      [] s = "ContinuePending" -> SERVICE_CONTINUE_PENDING
      [] s = "PausePending" -> SERVICE_PAUSE_PENDING
      [] s = "Paused" -> SERVICE_PAUSE_PENDING

\* `*self as u32` with the discriminants of the enum
ServiceState_to_raw(s) ==
    CASE s = "Stopped" -> SERVICE_STOPPED
      [] s = "StartPending" -> SERVICE_START_PENDING
      [] s = "StopPending" -> SERVICE_STOP_PENDING
      [] s = "Running" -> SERVICE_RUNNING
      [] s = "ContinuePending" -> SERVICE_CONTINUE_PENDING
      [] s = "PausePending" -> SERVICE_PAUSE_PENDING
      [] s = "Paused" -> SERVICE_PAUSED

\* the match arms of ServiceState::from_raw in source order
ServiceStateArms ==
    <<"Stopped", "StartPending", "StopPending", "Running",
      "ContinuePending", "PausePending", "Paused">>

\* the first arm whose guard `x == V.to_raw()` holds, else the error arm
ServiceState_from_raw(raw_state) ==
    LET hits == {i \in 1..Len(ServiceStateArms) :
                    ServiceState_to_raw(ServiceStateArms[i]) = raw_state}
    IN  IF hits = {}
        THEN Err("InvalidServiceState", raw_state)
        ELSE Ok(ServiceStateArms[CHOOSE i \in hits : \A j \in hits : i <= j])

(***************************************************************************)
(* ServiceControl                                                          *)
(***************************************************************************)
ServiceControls ==
    {"Continue", "Interrogate", "NetBindAdd", "NetBindDisable",
     "NetBindEnable", "NetBindRemove", "ParamChange", "Pause",
     "Preshutdown", "Shutdown", "Stop"}

ServiceControl_to_raw(c) ==
    CASE c = "Continue" -> SERVICE_CONTROL_CONTINUE
      [] c = "Interrogate" -> SERVICE_CONTROL_INTERROGATE
      [] c = "NetBindAdd" -> SERVICE_CONTROL_NETBINDADD
      [] c = "NetBindDisable" -> SERVICE_CONTROL_NETBINDDISABLE
      [] c = "NetBindEnable" -> SERVICE_CONTROL_NETBINDENABLE
      [] c = "NetBindRemove" -> SERVICE_CONTROL_NETBINDREMOVE
      [] c = "ParamChange" -> SERVICE_CONTROL_PARAMCHANGE
      [] c = "Pause" -> SERVICE_CONTROL_PAUSE
      [] c = "Preshutdown" -> SERVICE_CONTROL_PRESHUTDOWN
      [] c = "Shutdown" -> SERVICE_CONTROL_SHUTDOWN
      [] c = "Stop" -> SERVICE_CONTROL_STOP

\* the match arms of ServiceControl::from_raw in source order
ServiceControlArms ==
    <<"Continue", "Interrogate", "NetBindAdd", "NetBindDisable",
      "NetBindEnable", "NetBindRemove", "ParamChange", "Pause",
      "Preshutdown", "Shutdown", "Stop">>

\* the first arm whose guard `x == V.to_raw()` holds, else the error arm
ServiceControl_from_raw(raw_value) ==
    LET hits == {i \in 1..Len(ServiceControlArms) :
                    ServiceControl_to_raw(ServiceControlArms[i]) = raw_value}
    IN  IF hits = {}
        THEN Err("InvalidServiceControl", raw_value)
        ELSE Ok(ServiceControlArms[CHOOSE i \in hits : \A j \in hits : i <= j])

(***************************************************************************)
(* ServiceExitCode and the two raw fields it is written to.                *)
(***************************************************************************)
Win32(c) == [tag |-> "Win32", code |-> c]
ServiceSpecific(c) == [tag |-> "ServiceSpecific", code |-> c]

\* copy_to writes two fields of raw_service_status and leaves the others
ServiceExitCode_copy_to(e, raw_service_status) ==
    IF e.tag = "Win32"
    THEN [raw_service_status EXCEPT !.dwWin32ExitCode = e.code,
                                    !.dwServiceSpecificExitCode = 0]
    ELSE [raw_service_status EXCEPT !.dwWin32ExitCode = ERROR_SERVICE_SPECIFIC_ERROR,
                                    !.dwServiceSpecificExitCode = e.code]

ServiceExitCode_from_raw_service_status(raw_service_status) ==
    IF raw_service_status.dwWin32ExitCode = ERROR_SERVICE_SPECIFIC_ERROR
    THEN ServiceSpecific(raw_service_status.dwServiceSpecificExitCode)
    ELSE Win32(raw_service_status.dwWin32ExitCode)

\* mem::zeroed::<SERVICE_STATUS>()
ZeroedStatus ==
    [dwServiceType |-> 0, dwCurrentState |-> 0, dwControlsAccepted |-> 0,
     dwWin32ExitCode |-> 0, dwServiceSpecificExitCode |-> 0,
     dwCheckPoint |-> 0, dwWaitHint |-> 0]

(***************************************************************************)
(* ServiceControlAccept and its derived builder.  Every field of the       *)
(* builder is an Option; #[builder(default)] fills an unset field with     *)
(* false.                                                                  *)
(***************************************************************************)
AcceptFields ==
    {"netbind_change", "param_change", "pause_continue",
     "preshutdown", "shutdown", "stop"}

ServiceControlAcceptValues == [AcceptFields -> BOOLEAN]
ServiceControlAcceptBuilders == [AcceptFields -> {None, Some(TRUE), Some(FALSE)}]

\* a validate that lets every combination through
ServiceControlAcceptBuilder_validate_lax(b) == Ok(<<>>)

ServiceControlAcceptBuilder_validate(b) ==
    IF b.preshutdown = Some(TRUE) /\ b.shutdown = Some(TRUE)
    THEN Err("Validation", 0)
    ELSE Ok(<<>>)

\* the generated build(): validate, then each field or its default
ServiceControlAcceptBuilder_build(b) ==
    IF ~ServiceControlAcceptBuilder_validate(b).ok
    THEN ServiceControlAcceptBuilder_validate(b)
    ELSE Ok([f \in AcceptFields |-> IF IsSome(b[f]) THEN Unwrap(b[f]) ELSE FALSE])

ServiceControlAccept_from_raw(raw_mask) ==
    [netbind_change |-> HasBit(raw_mask, SERVICE_ACCEPT_NETBINDCHANGE),
     param_change   |-> HasBit(raw_mask, SERVICE_ACCEPT_PARAMCHANGE),
     pause_continue |-> HasBit(raw_mask, SERVICE_ACCEPT_PAUSE_CONTINUE),
     preshutdown    |-> HasBit(raw_mask, SERVICE_ACCEPT_PRESHUTDOWN),
     shutdown       |-> HasBit(raw_mask, SERVICE_ACCEPT_SHUTDOWN),
     stop           |-> HasBit(raw_mask, SERVICE_ACCEPT_STOP)]

\* the bits are distinct, so or-ing them is adding them
ServiceControlAccept_to_raw(a) ==
      (IF a.netbind_change THEN SERVICE_ACCEPT_NETBINDCHANGE ELSE 0)
    + (IF a.param_change THEN SERVICE_ACCEPT_PARAMCHANGE ELSE 0)
    + (IF a.pause_continue THEN SERVICE_ACCEPT_PAUSE_CONTINUE ELSE 0)
    + (IF a.preshutdown THEN SERVICE_ACCEPT_PRESHUTDOWN ELSE 0)
    + (IF a.shutdown THEN SERVICE_ACCEPT_SHUTDOWN ELSE 0)
    + (IF a.stop THEN SERVICE_ACCEPT_STOP ELSE 0)

(***************************************************************************)
(* ServiceStatus and its derived builder.  No field has a default, so      *)
(* build() fails on an unset field.  A Duration is its length in           *)
(* milliseconds.                                                           *)
(***************************************************************************)
StatusFields ==
    {"service_type", "current_state", "controls_accepted",
     "exit_code", "checkpoint", "wait_hint"}

PendingStates == {"StartPending", "StopPending", "PausePending", "ContinuePending"}

\* a validate whose test of the pending states is inverted
ServiceStatusBuilder_validate_inverted(b) ==
    IF IsSome(b.current_state) /\ IsSome(b.checkpoint)
    THEN IF Unwrap(b.current_state) \in PendingStates /\ Unwrap(b.checkpoint) # 0
         THEN Err("Validation", 0)
         ELSE Ok(<<>>)
    ELSE Ok(<<>>)

ServiceStatusBuilder_validate(b) ==
    IF IsSome(b.current_state) /\ IsSome(b.checkpoint)
    THEN LET is_pending_operation == Unwrap(b.current_state) \in PendingStates
         IN  IF ~is_pending_operation /\ Unwrap(b.checkpoint) # 0
             THEN Err("Validation", 0)
             ELSE Ok(<<>>)
    ELSE Ok(<<>>)

\* the generated build(): validate, then every field must have been set
ServiceStatusBuilder_build(b) ==
    IF ~ServiceStatusBuilder_validate(b).ok
    THEN ServiceStatusBuilder_validate(b)
    ELSE IF \E f \in StatusFields : ~IsSome(b[f])
         THEN Err("UninitializedField", 0)
         ELSE Ok([f \in StatusFields |-> Unwrap(b[f])])

\* Duration::as_secs(): the whole seconds of the duration
as_secs(ms) == ms \div 1000

ServiceStatus_to_raw(st) ==
    LET raw_status ==
            [ZeroedStatus EXCEPT
                !.dwServiceType = ServiceType_to_raw(st.service_type),
                !.dwCurrentState = ServiceState_to_raw(st.current_state),
                !.dwControlsAccepted = ServiceControlAccept_to_raw(st.controls_accepted)]
        with_exit == ServiceExitCode_copy_to(st.exit_code, raw_status)
    IN  [with_exit EXCEPT !.dwCheckPoint = st.checkpoint,
                          !.dwWaitHint = as_secs(st.wait_hint) * 1000]

\* a decoder that falls back to Stopped for a state code it does not know
ServiceStatus_from_raw_defaulting(raw_status) ==
    LET t == ServiceType_from_raw(raw_status.dwServiceType)
        s == ServiceState_from_raw(raw_status.dwCurrentState)
    IN  IF ~t.ok THEN t
        ELSE Ok([service_type |-> t.val,
                 current_state |-> IF s.ok THEN s.val ELSE "Stopped",
                 controls_accepted |->
                     ServiceControlAccept_from_raw(raw_status.dwControlsAccepted),
                 exit_code |-> ServiceExitCode_from_raw_service_status(raw_status),
                 checkpoint |-> raw_status.dwCheckPoint,
                 wait_hint |-> raw_status.dwWaitHint])

\* the `?` on the service type comes first, then the one on the state
ServiceStatus_from_raw(raw_status) ==
    LET t == ServiceType_from_raw(raw_status.dwServiceType)
        s == ServiceState_from_raw(raw_status.dwCurrentState)
    IN  IF ~t.ok THEN t
        ELSE IF ~s.ok THEN s
        ELSE Ok([service_type |-> t.val,
                 current_state |-> s.val,
                 controls_accepted |->
                     ServiceControlAccept_from_raw(raw_status.dwControlsAccepted),
                 exit_code |-> ServiceExitCode_from_raw_service_status(raw_status),
                 checkpoint |-> raw_status.dwCheckPoint,
                 wait_hint |-> raw_status.dwWaitHint])

(***************************************************************************)
(* Inputs of the value-type operations.                                    *)
(***************************************************************************)
\* u32 codes: the small ones, the neighbourhood of the sentinel, a large one
CodeSamples ==
    (0..MaxCode) \cup
    {ERROR_SERVICE_SPECIFIC_ERROR - 1, ERROR_SERVICE_SPECIFIC_ERROR,
     ERROR_SERVICE_SPECIFIC_ERROR + 1, 2147483647}

ExitCodeValues ==
    {Win32(c) : c \in CodeSamples} \cup {ServiceSpecific(c) : c \in CodeSamples}

\* what a raw status may hold in its exit-code fields before copy_to writes them
PriorRawStatuses ==
    {[ZeroedStatus EXCEPT !.dwWin32ExitCode = w, !.dwServiceSpecificExitCode = x] :
        w \in {0, ERROR_SERVICE_SPECIFIC_ERROR}, x \in {0, 7}}

KnownStateCodes ==
    {SERVICE_STOPPED, SERVICE_START_PENDING, SERVICE_STOP_PENDING, SERVICE_RUNNING,
     SERVICE_CONTINUE_PENDING, SERVICE_PAUSE_PENDING, SERVICE_PAUSED}

NoCall == [fn |-> "none", arg |-> <<>>, out |-> <<>>]

(***************************************************************************)
(* SpecCodec: the encoders, decoders and the accepted-controls builder,    *)
(* one of them applied once to an input drawn from its samples.            *)
(***************************************************************************)
\* self.exit_code.copy_to(&mut raw) followed by from_raw_service_status(&raw)
ExitCodeRoundTrip ==
    /\ call = NoCall
    /\ \E e \in ExitCodeValues, prior \in PriorRawStatuses :
        call' = [fn |-> "ServiceExitCode::copy_to;from_raw_service_status",
                 arg |-> e,
                 out |-> ServiceExitCode_from_raw_service_status(
                             ServiceExitCode_copy_to(e, prior))]
    /\ UNCHANGED <<held, transmitted>>
    /\ UNCHANGED <<handlerVars, removeVars>>

\* ServiceState::from_raw(s.to_raw())
StateEncodeDecode ==
    /\ call = NoCall
    /\ \E s \in ServiceStates :
        call' = [fn |-> "ServiceState::to_raw;from_raw",
                 arg |-> s,
                 out |-> ServiceState_from_raw(ServiceState_to_raw(s))]
    /\ UNCHANGED <<held, transmitted>>
    /\ UNCHANGED <<handlerVars, removeVars>>

\* ServiceState::from_raw(r)
StateDecode ==
    /\ call = NoCall
    /\ \E r \in CodeSamples :
        call' = [fn |-> "ServiceState::from_raw",
                 arg |-> r,
                 out |-> ServiceState_from_raw(r)]
    /\ UNCHANGED <<held, transmitted>>
    /\ UNCHANGED <<handlerVars, removeVars>>

\* ServiceControlAcceptBuilder::default().f(v)...build()
AcceptBuild ==
    /\ call = NoCall
    /\ \E b \in ServiceControlAcceptBuilders :
        call' = [fn |-> "ServiceControlAcceptBuilder::build",
                 arg |-> b,
                 out |-> ServiceControlAcceptBuilder_build(b)]
    /\ UNCHANGED <<held, transmitted>>
    /\ UNCHANGED <<handlerVars, removeVars>>

InitStatus ==
    /\ call = NoCall
    /\ held = None
    /\ transmitted = None

(***************************************************************************)
(* SpecStatus: the ways an application obtains a ServiceStatus, and the    *)
(* report of the value it holds through set_service_status.  The model     *)
(* follows one value from where it is obtained to its report:              *)
(* set_service_status keeps no state between calls.                        *)
(***************************************************************************)
\* the accepted-controls values the status samples carry
AcceptSamples ==
    {a \in ServiceControlAcceptValues :
        ~a.netbind_change /\ ~a.param_change /\ ~a.pause_continue}

StatusExitCodes == {Win32(0), Win32(ERROR_SERVICE_SPECIFIC_ERROR), ServiceSpecific(1)}
CheckpointSamples == (0..MaxCheckpoint) \cup {5}
WaitHintSamples == {0, 1000, 1500}

ServiceStatusValues ==
    [service_type : ServiceTypes, current_state : ServiceStates,
     controls_accepted : AcceptSamples, exit_code : StatusExitCodes,
     checkpoint : CheckpointSamples, wait_hint : WaitHintSamples]

OptionOf(S) == {None} \cup {Some(x) : x \in S}

ServiceStatusBuilders ==
    [service_type : OptionOf(ServiceTypes), current_state : OptionOf(ServiceStates),
     controls_accepted : OptionOf({a \in AcceptSamples : a.stop}),
     exit_code : OptionOf({Win32(0)}),
     checkpoint : OptionOf(CheckpointSamples), wait_hint : OptionOf({1500})]

RawStatusSamples ==
    [dwServiceType : {SERVICE_WIN32_OWN_PROCESS, 2 * SERVICE_WIN32_OWN_PROCESS},
     dwCurrentState : 0..(SERVICE_PAUSED + 1),
     dwControlsAccepted : {ServiceControlAccept_to_raw(a) : a \in AcceptSamples},
     dwWin32ExitCode : {0, ERROR_SERVICE_SPECIFIC_ERROR},
     dwServiceSpecificExitCode : {0, 1},
     dwCheckPoint : CheckpointSamples,
     dwWaitHint : {1500}]

\* ServiceStatusBuilder::default().f(v)...build()
StatusBuild ==
    /\ call = NoCall
    /\ \E b \in ServiceStatusBuilders :
        LET r == ServiceStatusBuilder_build(b)
        IN  /\ call' = [fn |-> "ServiceStatusBuilder::build", arg |-> b, out |-> r]
            /\ held' = IF r.ok THEN Some(r.val) ELSE None
    /\ UNCHANGED transmitted
    /\ UNCHANGED <<handlerVars, removeVars>>

\* ServiceStatus { service_type: .., .. }: every field is pub
StatusConstruct ==
    /\ call = NoCall
    /\ \E v \in ServiceStatusValues :
        /\ call' = [fn |-> "ServiceStatus {..}", arg |-> v, out |-> Ok(v)]
        /\ held' = Some(v)
    /\ UNCHANGED transmitted
    /\ UNCHANGED <<handlerVars, removeVars>>

\* status.checkpoint = c on a value the application holds
StatusMutate ==
    /\ transmitted = None
    /\ IsSome(held)
    /\ \E c \in CheckpointSamples :
        LET v == [Unwrap(held) EXCEPT !.checkpoint = c]
        IN  /\ call' = [fn |-> "status.checkpoint = c", arg |-> c, out |-> Ok(v)]
            /\ held' = Some(v)
    /\ UNCHANGED transmitted
    /\ UNCHANGED <<handlerVars, removeVars>>

\* ServiceStatus::from_raw(raw_status), as query_status and stop return it
StatusFromRaw ==
    /\ call = NoCall
    /\ \E raw \in RawStatusSamples :
        LET r == ServiceStatus_from_raw(raw)
        IN  /\ call' = [fn |-> "ServiceStatus::from_raw", arg |-> raw, out |-> r]
            /\ held' = IF r.ok THEN Some(r.val) ELSE None
    /\ UNCHANGED transmitted
    /\ UNCHANGED <<handlerVars, removeVars>>

\* what SetServiceStatus is handed: the to_raw of the value, unconditionally
set_service_status(service_status) == ServiceStatus_to_raw(service_status)

\* status_handle.set_service_status(held): the value is moved into the call;
\* the OS accepts or refuses the report
SetServiceStatus ==
    /\ transmitted = None
    /\ IsSome(held)
    /\ \E os_ok \in BOOLEAN :
        call' = [fn |-> "ServiceStatusHandle::set_service_status",
                 arg |-> Unwrap(held),
                 out |-> IF os_ok THEN Ok(<<>>) ELSE Err("System", 0)]
    /\ transmitted' = Some(set_service_status(Unwrap(held)))
    /\ held' = None
    /\ UNCHANGED <<handlerVars, removeVars>>

(***************************************************************************)
(* The control-handler bridge and the example's handle_service_main.       *)
(***************************************************************************)
\* the local `handler` of ServiceControlHandler::new, whose address is the context
AddrNewHandler == "ServiceControlHandler::new::handler"
\* the local `result` of handle_service_main, which new's return value is moved to
AddrResult == "handle_service_main::result"

NoError == [tag |-> "NoError", code |-> 0]
NotImplemented == [tag |-> "NotImplemented", code |-> 0]
Other(code) == [tag |-> "Other", code |-> code]

\* a translation that reports every Other(code) as not implemented
ServiceControlHandlerResult_to_raw_flat(r) ==
    CASE r.tag = "NoError" -> NO_ERROR
      [] OTHER -> ERROR_CALL_NOT_IMPLEMENTED

ServiceControlHandlerResult_to_raw(r) ==
    CASE r.tag = "NoError" -> NO_ERROR
      [] r.tag = "NotImplemented" -> ERROR_CALL_NOT_IMPLEMENTED
      [] r.tag = "Other" -> r.code

\* a closure that also signals shutdown on Interrogate
handler_signalling_interrogate(control_event, receiver_alive) ==
    IF control_event \in {"Interrogate", "Stop", "Shutdown"}
    THEN [result |-> NoError, send |-> receiver_alive, panic |-> ~receiver_alive]
    ELSE [result |-> NotImplemented, send |-> FALSE, panic |-> FALSE]

\* the closure `handler` of handle_service_main: its result, whether it sent on
\* the shutdown channel, and whether send(()).unwrap() panicked (the receiver
\* is gone)
handler(control_event, receiver_alive) ==
    IF control_event = "Interrogate"
    THEN [result |-> NoError, send |-> FALSE, panic |-> FALSE]
    ELSE IF control_event \in {"Stop", "Shutdown"}
    THEN [result |-> NoError, send |-> receiver_alive, panic |-> ~receiver_alive]
    ELSE [result |-> NotImplemented, send |-> FALSE, panic |-> FALSE]

Outcome(ret, invoked, send, crash) ==
    [ret |-> ret, invoked |-> invoked, send |-> send, crash |-> crash]

\* ServiceControlHandler::handle_event through the reference the trampoline made
\* from the context: mem is what the context points to, closure what
\* handler_closure points to, h what the closure does when it is called.
\* Reading memory that was overwritten faults; unwrap() on an unset
\* status_handle panics.
handle_event_calling(mem, closure, control, h) ==
    IF mem.state = "clobbered" THEN Outcome(None, <<>>, FALSE, TRUE)
    ELSE IF ~mem.status_handle THEN Outcome(None, <<>>, FALSE, TRUE)
    ELSE IF closure = "clobbered" THEN Outcome(None, <<>>, FALSE, TRUE)
    ELSE IF h.panic
         THEN Outcome(None, <<control>>, FALSE, TRUE)
         ELSE Outcome(Some(ServiceControlHandlerResult_to_raw(h.result)),
                      <<control>>, h.send, FALSE)

\* handle_event when the closure is the one of handle_service_main
handle_event(mem, closure, control, receiver_alive) ==
    handle_event_calling(mem, closure, control, handler(control, receiver_alive))

\* the trampoline the OS calls with the raw control code and the context, for
\* a closure H, given as what it does for each control
service_control_handler_calling(control, mem, closure, H) ==
    LET service_control == ServiceControl_from_raw(control)
    IN  IF service_control.ok
        THEN handle_event_calling(mem, closure, service_control.val,
                                  H[service_control.val])
        ELSE Outcome(Some(ServiceControlHandlerResult_to_raw(NotImplemented)),
                     <<>>, FALSE, FALSE)

\* the trampoline when the closure is the one of handle_service_main
service_control_handler(control, mem, closure, receiver_alive) ==
    LET service_control == ServiceControl_from_raw(control)
    IN  IF service_control.ok
        THEN handle_event(mem, closure, service_control.val, receiver_alive)
        ELSE Outcome(Some(ServiceControlHandlerResult_to_raw(NotImplemented)),
                     <<>>, FALSE, FALSE)

\* the raw control codes the OS delivers
ControlCodeSamples == (0..MaxCode) \cup {ERROR_CALL_NOT_IMPLEMENTED, 2147483647}

KnownControlCodes ==
    {SERVICE_CONTROL_STOP, SERVICE_CONTROL_PAUSE, SERVICE_CONTROL_CONTINUE,
     SERVICE_CONTROL_INTERROGATE, SERVICE_CONTROL_SHUTDOWN,
     SERVICE_CONTROL_PARAMCHANGE, SERVICE_CONTROL_NETBINDADD,
     SERVICE_CONTROL_NETBINDREMOVE, SERVICE_CONTROL_NETBINDENABLE,
     SERVICE_CONTROL_NETBINDDISABLE, SERVICE_CONTROL_PRESHUTDOWN}

\* the shutdown_receiver lives until handle_service_main returns
ReceiverAlive == pc \notin {"returned", "failed"}

\* ServiceControlHandler::new up to the OS call, which registers the trampoline
\* with the address of the local `handler` as its context
Register ==
    /\ proc = "running" /\ pc = "start"
    /\ pc' = "registered"
    /\ context' = Some(AddrNewHandler)
    /\ handlerAt' = AddrNewHandler
    /\ ctxMem' = [state |-> "live", status_handle |-> FALSE]
    /\ UNCHANGED <<proc, closureMem, queue, signals, events, lastEvent>>
    /\ UNCHANGED <<statusVars, removeVars>>

\* the OS call returns null: new returns Err, handle_service_main logs and returns
RegisterFails ==
    /\ proc = "running" /\ pc = "start"
    /\ pc' = "failed"
    /\ closureMem' = "stale"
    /\ UNCHANGED <<proc, context, handlerAt, ctxMem, queue, signals, events, lastEvent>>
    /\ UNCHANGED <<statusVars, removeVars>>

\* handler.status_handle = Some(..)
StoreStatusHandle ==
    /\ proc = "running" /\ pc = "registered"
    /\ pc' = "stored"
    /\ ctxMem' = [ctxMem EXCEPT !.status_handle = TRUE]
    /\ UNCHANGED <<proc, context, handlerAt, closureMem, queue, signals, events,
                   lastEvent>>
    /\ UNCHANGED <<statusVars, removeVars>>

\* Ok(handler): the value is moved out of new's frame into `result`
ReturnFromNew ==
    /\ proc = "running" /\ pc = "stored"
    /\ pc' = "blocked"
    /\ handlerAt' = AddrResult
    /\ ctxMem' = [ctxMem EXCEPT !.state = "stale"]
    /\ UNCHANGED <<proc, context, closureMem, queue, signals, events, lastEvent>>
    /\ UNCHANGED <<statusVars, removeVars>>

\* shutdown_receiver.recv().unwrap() takes a message; handle_service_main
\* returns and drops `result`, the closure and the channel
Recv ==
    /\ proc = "running" /\ pc = "blocked"
    /\ queue > 0
    /\ queue' = queue - 1
    /\ pc' = "returned"
    /\ handlerAt' = "dropped"
    /\ closureMem' = "stale"
    /\ UNCHANGED <<proc, context, ctxMem, signals, events, lastEvent>>
    /\ UNCHANGED <<statusVars, removeVars>>

\* the dead frame of new is overwritten by the calls the entry thread makes next
ClobberContext ==
    /\ proc = "running"
    /\ ctxMem.state = "stale"
    /\ ctxMem' = [ctxMem EXCEPT !.state = "clobbered"]
    /\ UNCHANGED <<pc, proc, context, handlerAt, closureMem, queue, signals, events,
                   lastEvent>>
    /\ UNCHANGED <<statusVars, removeVars>>

\* the frame of handle_service_main is gone once the worker thread moves on
ClobberClosure ==
    /\ proc = "running"
    /\ closureMem = "stale"
    /\ closureMem' = "clobbered"
    /\ UNCHANGED <<pc, proc, context, handlerAt, ctxMem, queue, signals, events,
                   lastEvent>>
    /\ UNCHANGED <<statusVars, removeVars>>

\* the OS dispatch thread calls the trampoline with a control code and the
\* context it was given at registration
ControlEvent ==
    /\ proc = "running"
    /\ IsSome(context)
    /\ events < MaxEvents
    /\ \E control \in ControlCodeSamples :
        LET o == service_control_handler(control, ctxMem, closureMem, ReceiverAlive)
        IN  /\ lastEvent' = Some([control |-> control, ret |-> o.ret,
                                  invoked |-> o.invoked,
                                  context |-> Unwrap(context),
                                  handlerAt |-> handlerAt])
            /\ queue' = IF o.send THEN queue + 1 ELSE queue
            /\ signals' = IF o.send THEN signals \o o.invoked ELSE signals
            /\ proc' = IF o.crash THEN "crashed" ELSE proc
    /\ events' = events + 1
    /\ UNCHANGED <<pc, context, handlerAt, ctxMem, closureMem>>
    /\ UNCHANGED <<statusVars, removeVars>>

InitHandler ==
    /\ pc = "start"
    /\ proc = "running"
    /\ context = None
    /\ handlerAt = "none"
    /\ ctxMem = [state |-> "unallocated", status_handle |-> FALSE]
    /\ closureMem = "live"
    /\ queue = 0
    /\ signals = <<>>
    /\ events = 0
    /\ lastEvent = None

NextHandler ==
    \/ Register
    \/ RegisterFails
    \/ StoreStatusHandle
    \/ ReturnFromNew
    \/ Recv
    \/ ClobberContext
    \/ ClobberClosure
    \/ ControlEvent

(***************************************************************************)
(* The remove-service flow of the example (remove_service) over the        *)
(* service manager and the service handle.  trace lists the OS calls the   *)
(* flow made, each with its result.                                        *)
(***************************************************************************)
Polls(t) == Cardinality({i \in DOMAIN t : t[i][1] = "QueryStatus"})

\* a return that deletes the service entry before it releases the handles
CloseBoth_deleting ==
    <<(<<"Delete", "ok">>), (<<"CloseService", "ok">>), (<<"CloseManager", "ok">>)>>

\* a return that releases the manager and leaves the service handle open
CloseBoth_leaking == <<(<<"CloseManager", "ok">>)>>

\* the values dropped on a return from inside the loop, in drop order:
\* `service`, then `service_manager`
CloseBoth == <<(<<"CloseService", "ok">>), (<<"CloseManager", "ok">>)>>

\* a match that sends Stop while the service is already stopping
remove_service_match_impatient(current_state) ==
    CASE current_state = "Stopped" -> "delete"
      [] OTHER -> "stop"

\* a match that returns success for a stopped service without deleting it
remove_service_match_skipping(current_state) ==
    CASE current_state = "StopPending" -> "sleep"
      [] current_state = "Stopped" -> "done_ok"
      [] OTHER -> "stop"

\* match service_status.current_state { .. } of the poll loop
remove_service_match(current_state) ==
    CASE current_state = "StopPending" -> "sleep"
      [] current_state = "Stopped" -> "delete"
      [] OTHER -> "stop"

\* an access set that leaves the delete right out
remove_service_access_without_delete == {"QUERY_STATUS", "STOP"}

\* let service_access = QUERY_STATUS | STOP | DELETE of remove_service
remove_service_access == {"QUERY_STATUS", "STOP", "DELETE"}

\* the right an operation on a service handle needs: "Can query the service
\* status", "Can stop the service", "Can delete the service"
RequiredRight(operation) ==
    CASE operation = "QueryStatus" -> "QUERY_STATUS"
      [] operation = "Stop" -> "STOP"
      [] operation = "Delete" -> "DELETE"

\* the OS refuses an operation whose right the handle was not opened with
OsGrants(service_access, operation) == RequiredRight(operation) \in service_access

\* Service::query_status on the raw status the OS filled in, or a failed syscall
query_status(success, raw_status) ==
    IF success THEN ServiceStatus_from_raw(raw_status) ELSE Err("System", 0)

\* Service::send_control_command, the same way
send_control_command(success, raw_status) ==
    IF success THEN ServiceStatus_from_raw(raw_status) ELSE Err("System", 0)

\* the raw statuses the OS may report for the service in state s: the codes of
\* s and of the service type, or a code outside the enumerations
OsReports(s) ==
    {[ZeroedStatus EXCEPT !.dwServiceType = t, !.dwCurrentState = c] :
        t \in {SERVICE_WIN32_OWN_PROCESS, 2 * SERVICE_WIN32_OWN_PROCESS},
        c \in {ServiceState_to_raw(s), 0}}

ResultName(r) == IF r.ok THEN r.val.current_state ELSE r.err[1]

\* ServiceManager::local_computer(None, CONNECT)
RConnect ==
    /\ rpc = "connect"
    /\ \E ok \in BOOLEAN :
        IF ok
        THEN /\ scm' = "open"
             /\ rpc' = "open"
             /\ trace' = Append(trace, <<"Connect", "ok">>)
        ELSE /\ scm' = scm
             /\ rpc' = "done_err"
             /\ trace' = Append(trace, <<"Connect", "System">>)
    /\ UNCHANGED <<svc, osState, osDeleted>>
    /\ UNCHANGED <<statusVars, handlerVars>>

\* service_manager.open_service(SERVICE_NAME, QUERY_STATUS | STOP | DELETE)
ROpen ==
    /\ rpc = "open"
    /\ \E ok \in BOOLEAN :
        IF ok
        THEN /\ svc' = "open"
             /\ scm' = scm
             /\ rpc' = "query"
             /\ trace' = Append(trace, <<"Open", "ok">>)
        ELSE /\ svc' = svc
             /\ scm' = "closed"
             /\ rpc' = "done_err"
             /\ trace' = trace \o <<(<<"Open", "System">>), (<<"CloseManager", "ok">>)>>
    /\ UNCHANGED <<osState, osDeleted>>
    /\ UNCHANGED <<statusVars, handlerVars>>

\* service.query_status()? and the match on the state it returned
RQuery ==
    /\ rpc = "query"
    /\ Polls(trace) < MaxPolls
    /\ \E success \in BOOLEAN, raw_status \in OsReports(osState) :
        LET r == IF OsGrants(remove_service_access, "QueryStatus")
                 THEN query_status(success, raw_status)
                 ELSE Err("AccessDenied", 0)
        IN  IF r.ok
            THEN /\ rpc' = remove_service_match(r.val.current_state)
                 /\ trace' = Append(trace, <<"QueryStatus", ResultName(r)>>)
                 /\ UNCHANGED <<scm, svc>>
            ELSE /\ rpc' = "done_err"
                 /\ trace' = Append(trace, <<"QueryStatus", ResultName(r)>>) \o CloseBoth
                 /\ scm' = "closed"
                 /\ svc' = "closed"
    /\ UNCHANGED <<osState, osDeleted>>
    /\ UNCHANGED <<statusVars, handlerVars>>

\* service.delete()?: delete takes the handle by value and closes it on return;
\* then remove_service returns and the manager is closed
RDelete ==
    /\ rpc = "delete"
    /\ \E success \in BOOLEAN :
        LET granted == OsGrants(remove_service_access, "Delete")
            ok == granted /\ success
        IN  /\ rpc' = IF ok THEN "done_ok" ELSE "done_err"
            /\ osDeleted' = ok
            /\ trace' = Append(trace, <<"Delete", IF ok THEN "ok"
                                                 ELSE IF granted THEN "System"
                                                 ELSE "AccessDenied">>)
                            \o CloseBoth
    /\ scm' = "closed"
    /\ svc' = "closed"
    /\ UNCHANGED osState
    /\ UNCHANGED <<statusVars, handlerVars>>

\* service.stop()?: the service may act on an accepted Stop at once or later
RStop ==
    /\ rpc = "stop"
    /\ \E success \in BOOLEAN, after \in {osState, "StopPending", "Stopped"} :
        \E raw_status \in OsReports(after) :
            LET granted == OsGrants(remove_service_access, "Stop")
                r == IF granted THEN send_control_command(success, raw_status)
                     ELSE Err("AccessDenied", 0)
            IN  /\ osState' = IF granted /\ success THEN after ELSE osState
                /\ IF r.ok
                   THEN /\ rpc' = "sleep"
                        /\ trace' = Append(trace, <<"Stop", "ok">>)
                        /\ UNCHANGED <<scm, svc>>
                   ELSE /\ rpc' = "done_err"
                        /\ trace' = Append(trace, <<"Stop", ResultName(r)>>) \o CloseBoth
                        /\ scm' = "closed"
                        /\ svc' = "closed"
    /\ UNCHANGED osDeleted
    /\ UNCHANGED <<statusVars, handlerVars>>

\* thread::sleep(1 s), then the next iteration
RSleep ==
    /\ rpc = "sleep"
    /\ rpc' = "query"
    /\ UNCHANGED <<scm, svc, osState, osDeleted, trace>>
    /\ UNCHANGED <<statusVars, handlerVars>>

\* the service, or another controller, changes the run state meanwhile
OsChange ==
    /\ rpc \in {"open", "query", "stop", "sleep", "delete"}
    /\ \E s \in ServiceStates \ {osState} : osState' = s
    /\ UNCHANGED <<rpc, scm, svc, osDeleted, trace>>
    /\ UNCHANGED <<statusVars, handlerVars>>

InitRemove ==
    /\ rpc = "connect"
    /\ scm = "none"
    /\ svc = "none"
    /\ osState \in ServiceStates
    /\ osDeleted = FALSE
    /\ trace = <<>>

NextRemove ==
    \/ RConnect
    \/ ROpen
    \/ RQuery
    \/ RDelete
    \/ RStop
    \/ RSleep
    \/ OsChange

(***************************************************************************)
(* The install-service flow of the example (install_service), on the same  *)
(* handles and trace as the remove flow.                                   *)
(***************************************************************************)
\* ServiceManager::local_computer(None, CONNECT | CREATE_SERVICE)
IConnect ==
    /\ rpc = "install_connect"
    /\ \E ok \in BOOLEAN :
        IF ok
        THEN /\ scm' = "open"
             /\ rpc' = "install_create"
             /\ trace' = Append(trace, <<"Connect", "ok">>)
        ELSE /\ scm' = scm
             /\ rpc' = "done_err"
             /\ trace' = Append(trace, <<"Connect", "System">>)
    /\ UNCHANGED <<svc, osState, osDeleted>>
    /\ UNCHANGED <<statusVars, handlerVars>>

\* service_manager.create_service(..).map(|_| ()): the created Service is
\* dropped by the map; then install_service returns and the manager is dropped
ICreate ==
    /\ rpc = "install_create"
    /\ \E ok \in BOOLEAN :
        IF ok
        THEN /\ svc' = "closed"
             /\ rpc' = "done_ok"
             /\ trace' = Append(trace, <<"Create", "ok">>) \o CloseBoth
        ELSE /\ svc' = svc
             /\ rpc' = "done_err"
             /\ trace' = trace \o <<(<<"Create", "System">>), (<<"CloseManager", "ok">>)>>
    /\ scm' = "closed"
    /\ UNCHANGED <<osState, osDeleted>>
    /\ UNCHANGED <<statusVars, handlerVars>>

\* main chose --install-service or --remove-service
InitFlows ==
    /\ rpc \in {"install_connect", "connect"}
    /\ scm = "none"
    /\ svc = "none"
    /\ osState \in ServiceStates
    /\ osDeleted = FALSE
    /\ trace = <<>>

NextFlows ==
    \/ IConnect
    \/ ICreate
    \/ RConnect
    \/ ROpen
    \/ RQuery
    \/ RDelete
    \/ RStop
    \/ RSleep
    \/ OsChange

(***************************************************************************)
(* SpecWide: decoding raw wide strings.  A raw string is the memory mapped *)
(* from the pointer on, a sequence of 16-bit units; unit i of the source   *)
(* is element i + 1.  A read at or past its end is a read of unmapped      *)
(* memory.  Every decoder gives the value, the set of indices it read and  *)
(* whether it faulted.                                                     *)
(***************************************************************************)
MaxUnits == ArgBound + 2
WideUnits == {0, 65, 66}
ArgUnits == {0, 65}

Decoded(value, reads, crash) == [value |-> value, reads |-> reads, crash |-> crash]

\* (0..max_length).find(|&i| *raw.offset(i) == 0): the position found, if any,
\* and the indices read on the way
RECURSIVE find_nul(_, _, _)
find_nul(mem, i, max_length) ==
    IF i >= max_length THEN [pos |-> None, reads |-> {}]
    ELSE IF mem[i + 1] = 0 THEN [pos |-> Some(i), reads |-> {i}]
    ELSE LET rest == find_nul(mem, i + 1, max_length)
         IN  [pos |-> rest.pos, reads |-> rest.reads \cup {i}]

\* a decoder whose search also looks at the unit at max_length
from_raw_wide_string_inclusive(mem, max_length) ==
    LET found == find_nul(mem, 0, max_length + 1)
        nul_position == IF IsSome(found.pos) THEN Unwrap(found.pos) ELSE max_length
    IN  IF nul_position > 0
        THEN Decoded(SubSeq(mem, 1, nul_position),
                     found.reads \cup (0..(nul_position - 1)), FALSE)
        ELSE Decoded(<<>>, found.reads, FALSE)

\* widestring.rs: from_raw_wide_string(raw_wide_char_string, max_length)
from_raw_wide_string(mem, max_length) ==
    LET found == find_nul(mem, 0, max_length)
        nul_position == IF IsSome(found.pos) THEN Unwrap(found.pos) ELSE max_length
    IN  IF nul_position > 0
        THEN Decoded(SubSeq(mem, 1, nul_position),
                     found.reads \cup (0..(nul_position - 1)), FALSE)
        ELSE Decoded(<<>>, found.reads, FALSE)

\* WideCStr::from_ptr_str(p): scans from p to the first zero unit, whatever
\* its distance; with no zero in the mapped memory the scan faults
RECURSIVE from_ptr_str_scan(_, _)
from_ptr_str_scan(mem, i) ==
    IF i >= Len(mem) THEN Decoded(<<>>, {i}, TRUE)
    ELSE IF mem[i + 1] = 0 THEN Decoded(<<>>, {i}, FALSE)
    ELSE LET rest == from_ptr_str_scan(mem, i + 1)
         IN  Decoded(<<mem[i + 1]>> \o rest.value, rest.reads \cup {i}, rest.crash)

from_ptr_str(mem) == from_ptr_str_scan(mem, 0)

\* parse_raw_arguments(argc, argv): every argv[i] through from_ptr_str
parse_raw_arguments(argv) ==
    LET each == [i \in DOMAIN argv |-> from_ptr_str(argv[i])]
    IN  [arguments |-> [i \in DOMAIN argv |-> each[i].value],
         reads |-> [i \in DOMAIN argv |-> each[i].reads],
         crash |-> \E i \in DOMAIN argv : each[i].crash]

\* the memory a raw string pointer may point to
WideMemories == [1..MaxUnits -> WideUnits]
ArgMemories == [1..MaxUnits -> ArgUnits]
ArgvSamples == UNION {[1..n -> ArgMemories] : n \in 0..MaxArgs}

\* from_raw_wide_string(p, max_length), max_length within the mapped memory
FromRawWideString ==
    /\ call = NoCall
    /\ \E mem \in WideMemories, max_length \in 0..(MaxUnits - 1) :
        call' = [fn |-> "from_raw_wide_string",
                 arg |-> [mem |-> mem, max_length |-> max_length],
                 out |-> from_raw_wide_string(mem, max_length)]
    /\ UNCHANGED <<held, transmitted>>
    /\ UNCHANGED <<handlerVars, removeVars>>

\* service_main(argc, argv), called by the service control dispatcher
ServiceMain ==
    /\ call = NoCall
    /\ \E argv \in ArgvSamples :
        call' = [fn |-> "service_main", arg |-> argv,
                 out |-> parse_raw_arguments(argv)]
    /\ UNCHANGED <<held, transmitted>>
    /\ UNCHANGED <<handlerVars, removeVars>>

NextWide ==
    \/ FromRawWideString
    \/ ServiceMain

(***************************************************************************)
(* SpecEscape: shell_escape::escape on a launch argument, a sequence of    *)
(* UCS-2 code points.                                                      *)
(***************************************************************************)
ESCAPE_CHARS == {SPACE, LINEFEED, HTAB, VTAB, DOUBLEQUOTE}

Repeat(c, n) == [k \in 1..n |-> c]

\* the backslashes of s from position i on: num_slashes when the inner while
\* loop ends
RECURSIVE CountSlashes(_, _)
CountSlashes(s, i) ==
    IF i <= Len(s) /\ s[i] = BACKSLASH THEN 1 + CountSlashes(s, i + 1) ELSE 0

\* the outer loop of escape from position i on: what it appends
RECURSIVE escape_loop(_, _)
escape_loop(s, i) ==
    LET num_slashes == CountSlashes(s, i)
        j == i + num_slashes
    IN  IF j > Len(s)
        THEN Repeat(BACKSLASH, num_slashes * 2)
        ELSE IF s[j] = DOUBLEQUOTE
        THEN Repeat(BACKSLASH, num_slashes * 2 + 1) \o <<DOUBLEQUOTE>>
                \o escape_loop(s, j + 1)
        ELSE Repeat(BACKSLASH, num_slashes) \o <<s[j]>> \o escape_loop(s, j + 1)

\* a quoting that wraps the argument in quotes and leaves its content as it is
escape_wrapping(s) ==
    IF ~\E k \in DOMAIN s : s[k] \in ESCAPE_CHARS
    THEN s
    ELSE <<DOUBLEQUOTE>> \o s \o <<DOUBLEQUOTE>>

\* a quoting that wraps every argument, also one that needs no quoting
escape_always(s) == <<DOUBLEQUOTE>> \o escape_loop(s, 1) \o <<DOUBLEQUOTE>>

\* shell_escape::escape(s)
escape(s) ==
    IF ~\E k \in DOMAIN s : s[k] \in ESCAPE_CHARS
    THEN s
    ELSE <<DOUBLEQUOTE>> \o escape_loop(s, 1) \o <<DOUBLEQUOTE>>

\* launch arguments: an ordinary character, space, double quote, backslash
\* and the white space characters escape looks for
ArgumentChars == {97, SPACE, DOUBLEQUOTE, BACKSLASH, LINEFEED, HTAB, VTAB}
ArgumentSamples == UNION {[1..n -> ArgumentChars] : n \in 0..MaxArgLen}

\* shell_escape::escape(Cow::Borrowed(launch_argument))
Escape ==
    /\ call = NoCall
    /\ \E s \in ArgumentSamples :
        call' = [fn |-> "shell_escape::escape", arg |-> s, out |-> escape(s)]
    /\ UNCHANGED <<held, transmitted>>
    /\ UNCHANGED <<handlerVars, removeVars>>

NextEscape ==
    \/ Escape

(***************************************************************************)
(* SpecConv: a status snapshot through to_raw and from_raw, and the        *)
(* failure policy to its raw code, in service.rs and in main.rs.           *)
(***************************************************************************)
ServiceErrorControls == {"Critical", "Ignore", "Normal", "Severe"}

\* service.rs: ServiceErrorControl::to_raw, the discriminant
ServiceErrorControl_to_raw(error_control) ==
    CASE error_control = "Critical" -> SERVICE_ERROR_CRITICAL
      [] error_control = "Ignore" -> SERVICE_ERROR_IGNORE
      [] error_control = "Normal" -> SERVICE_ERROR_NORMAL
      [] error_control = "Severe" -> SERVICE_ERROR_SEVERE

\* main.rs: impl From<ServiceErrorControl> for u32
main_ServiceErrorControl_into_u32(error_control) ==
    CASE error_control = "Critical" -> SERVICE_ERROR_NORMAL
      [] error_control = "Ignore" -> SERVICE_ERROR_IGNORE
      [] error_control = "Normal" -> SERVICE_ERROR_NORMAL
      [] error_control = "Severe" -> SERVICE_ERROR_SEVERE

\* ServiceStatus::from_raw(status.to_raw())
StatusEncodeDecode ==
    /\ call = NoCall
    /\ \E v \in ServiceStatusValues :
        LET raw == ServiceStatus_to_raw(v)
        IN  call' = [fn |-> "ServiceStatus::to_raw;from_raw",
                     arg |-> v,
                     out |-> [raw |-> raw, decoded |-> ServiceStatus_from_raw(raw)]]
    /\ UNCHANGED <<held, transmitted>>
    /\ UNCHANGED <<handlerVars, removeVars>>

\* service_info.error_control.to_raw() of service.rs
ErrorControlToRaw ==
    /\ call = NoCall
    /\ \E e \in ServiceErrorControls :
        call' = [fn |-> "ServiceErrorControl::to_raw", arg |-> e,
                 out |-> ServiceErrorControl_to_raw(e)]
    /\ UNCHANGED <<held, transmitted>>
    /\ UNCHANGED <<handlerVars, removeVars>>

\* service_info.error_control.into() of main.rs
MainErrorControlToRaw ==
    /\ call = NoCall
    /\ \E e \in ServiceErrorControls :
        call' = [fn |-> "main::From<ServiceErrorControl> for u32", arg |-> e,
                 out |-> main_ServiceErrorControl_into_u32(e)]
    /\ UNCHANGED <<held, transmitted>>
    /\ UNCHANGED <<handlerVars, removeVars>>

NextConv ==
    \/ StatusEncodeDecode
    \/ ErrorControlToRaw
    \/ MainErrorControlToRaw

(***************************************************************************)
(* The remove-service flow of mullvad-service (main.rs remove_service), on *)
(* the same handles and trace.                                             *)
(***************************************************************************)
\* SCManager::active_database(access_mask)?
MConnect ==
    /\ rpc = "main_connect"
    /\ \E ok \in BOOLEAN :
        IF ok
        THEN /\ scm' = "open"
             /\ rpc' = "main_open"
             /\ trace' = Append(trace, <<"Connect", "ok">>)
        ELSE /\ scm' = scm
             /\ rpc' = "done_err"
             /\ trace' = Append(trace, <<"Connect", "System">>)
    /\ UNCHANGED <<svc, osState, osDeleted>>
    /\ UNCHANGED <<statusVars, handlerVars>>

\* let _service = service_manager.open_service(..)?; Ok(()): nothing is done
\* with the handle before the function returns and both values are dropped
MOpen ==
    /\ rpc = "main_open"
    /\ \E ok \in BOOLEAN :
        IF ok
        THEN /\ svc' = "closed"
             /\ rpc' = "done_ok"
             /\ trace' = Append(trace, <<"Open", "ok">>) \o CloseBoth
        ELSE /\ svc' = svc
             /\ rpc' = "done_err"
             /\ trace' = trace \o <<(<<"Open", "System">>), (<<"CloseManager", "ok">>)>>
    /\ scm' = "closed"
    /\ UNCHANGED <<osState, osDeleted>>
    /\ UNCHANGED <<statusVars, handlerVars>>

\* a remove command given to the example or to mullvad-service
InitRemovers ==
    /\ rpc \in {"connect", "main_connect"}
    /\ scm = "none"
    /\ svc = "none"
    /\ osState \in ServiceStates
    /\ osDeleted = FALSE
    /\ trace = <<>>

NextRemovers ==
    \/ MConnect
    \/ MOpen
    \/ RConnect
    \/ ROpen
    \/ RQuery
    \/ RDelete
    \/ RStop
    \/ RSleep
    \/ OsChange

(***************************************************************************)
(* SpecService: the calls on a service handle that return a status         *)
(* snapshot, in service.rs and in main.rs, each applied once to what the   *)
(* OS may answer.                                                          *)
(***************************************************************************)
\* Result::unwrap() on an Err: the thread unwinds, no value is returned
Panicked == Err("panic", 0)

\* main.rs: impl TryConvertFrom<u32> for ServiceState
main_ServiceState_try_convert_from(raw_state) ==
    CASE raw_state = SERVICE_STOPPED -> Ok("Stopped")
      [] raw_state = SERVICE_START_PENDING -> Ok("StartPending")
      [] raw_state = SERVICE_STOP_PENDING -> Ok("StopPending")
      [] raw_state = SERVICE_RUNNING -> Ok("Running")
      [] raw_state = SERVICE_CONTINUE_PENDING -> Ok("ContinuePending")
      [] raw_state = SERVICE_PAUSE_PENDING -> Ok("PausePending")
      [] raw_state = SERVICE_PAUSED -> Ok("Paused")
      [] OTHER -> Err("ConversionError", 0)

\* main.rs: impl TryConvertFrom<SERVICE_STATUS> for ServiceStatus; the
\* snapshot of main.rs has the run state only
main_ServiceStatus_try_convert_from(raw_status) ==
    LET current_state == main_ServiceState_try_convert_from(raw_status.dwCurrentState)
    IN  IF ~current_state.ok THEN current_state
        ELSE Ok([current_state |-> current_state.val])

\* main.rs: Service::send_control_command
main_send_control_command(success, raw_status) ==
    IF success
    THEN LET converted == main_ServiceStatus_try_convert_from(raw_status)
         IN  IF converted.ok THEN Ok(converted.val) ELSE Panicked
    ELSE Err("System", 0)

\* the raw statuses the OS may write back: known and unknown type and state codes
OsStatusSamples ==
    [dwServiceType : {SERVICE_WIN32_OWN_PROCESS, 2 * SERVICE_WIN32_OWN_PROCESS},
     dwCurrentState : 0..(SERVICE_PAUSED + 1),
     dwControlsAccepted : {0, SERVICE_ACCEPT_STOP},
     dwWin32ExitCode : {0, ERROR_SERVICE_SPECIFIC_ERROR},
     dwServiceSpecificExitCode : {0},
     dwCheckPoint : 0..MaxCheckpoint,
     dwWaitHint : {0, 1500}]

\* service.query_status()
QueryStatus ==
    /\ call = NoCall
    /\ \E success \in BOOLEAN, raw_status \in OsStatusSamples :
        call' = [fn |-> "Service::query_status",
                 arg |-> [success |-> success, raw_status |-> raw_status],
                 out |-> query_status(success, raw_status)]
    /\ UNCHANGED <<held, transmitted>>
    /\ UNCHANGED <<handlerVars, removeVars>>

\* service.send_control_command(command) of service.rs
SendControlCommand ==
    /\ call = NoCall
    /\ \E success \in BOOLEAN, raw_status \in OsStatusSamples :
        call' = [fn |-> "Service::send_control_command",
                 arg |-> [success |-> success, raw_status |-> raw_status],
                 out |-> send_control_command(success, raw_status)]
    /\ UNCHANGED <<held, transmitted>>
    /\ UNCHANGED <<handlerVars, removeVars>>

\* service.send_control_command(command) of main.rs
MainSendControlCommand ==
    /\ call = NoCall
    /\ \E success \in BOOLEAN, raw_status \in OsStatusSamples :
        call' = [fn |-> "main::Service::send_control_command",
                 arg |-> [success |-> success, raw_status |-> raw_status],
                 out |-> main_send_control_command(success, raw_status)]
    /\ UNCHANGED <<held, transmitted>>
    /\ UNCHANGED <<handlerVars, removeVars>>

NextService ==
    \/ QueryStatus
    \/ SendControlCommand
    \/ MainSendControlCommand

(***************************************************************************)
(* SpecCreate: ServiceManager::create_service on a ServiceInfo whose       *)
(* strings are sequences of code points, 0 being NUL.                      *)
(***************************************************************************)
\* a conversion that takes the string as it is, NUL or not
WideCString_from_str_unchecked(str) == Ok(str)

\* WideCString::from_str(s): refuses a string with a NUL in it
WideCString_from_str(str) ==
    IF \E k \in DOMAIN str : str[k] = 0 THEN Err("NulError", 0) ELSE Ok(str)

\* a handle check that wraps whatever the OS returned
create_service_result_unchecked(service_handle_is_null) == Ok("Service")

\* if service_handle.is_null() { Err(last_os_error) } else { Ok(Service) }
create_service_result(service_handle_is_null) ==
    IF service_handle_is_null THEN Err("System", 0) ELSE Ok("Service")

\* the loop over launch_arguments from the i-th on: the command buffer, or the
\* error of the first argument that cannot be converted
RECURSIVE push_launch_arguments(_, _, _)
push_launch_arguments(launch_arguments, i, launch_command_buffer) ==
    IF i > Len(launch_arguments) THEN Ok(launch_command_buffer)
    ELSE LET escaped_value == escape(launch_arguments[i])
             checked_value == WideCString_from_str(escaped_value)
         IN  IF ~checked_value.ok THEN Err("InvalidLaunchArgument", 0)
             ELSE push_launch_arguments(
                      launch_arguments, i + 1,
                      launch_command_buffer \o <<SPACE>> \o checked_value.val)

Created(result, os_called, launch_command, panicked) ==
    [result |-> result, os_called |-> os_called,
     launch_command |-> launch_command, panicked |-> panicked]

\* windows-service: ServiceManager::create_service(service_info, access);
\* os_ok is whether CreateServiceW returns a handle
create_service(service_info, os_ok) ==
    IF ~WideCString_from_str(service_info.name).ok
    THEN Created(Err("InvalidServiceName", 0), FALSE, <<>>, FALSE)
    ELSE IF ~WideCString_from_str(service_info.display_name).ok
    THEN Created(Err("InvalidDisplayName", 0), FALSE, <<>>, FALSE)
    ELSE IF /\ IsSome(service_info.account_name)
            /\ ~WideCString_from_str(Unwrap(service_info.account_name)).ok
    THEN Created(Err("InvalidAccountName", 0), FALSE, <<>>, FALSE)
    ELSE IF /\ IsSome(service_info.account_password)
            /\ ~WideCString_from_str(Unwrap(service_info.account_password)).ok
    THEN Created(Err("InvalidAccountPassword", 0), FALSE, <<>>, FALSE)
    ELSE LET checked_launch_executable ==
                 WideCString_from_str(escape(service_info.executable_path))
         IN  IF ~checked_launch_executable.ok
             THEN Created(Err("InvalidExecutablePath", 0), FALSE, <<>>, FALSE)
             ELSE LET launch_command_buffer ==
                          push_launch_arguments(service_info.launch_arguments, 1,
                                                checked_launch_executable.val)
                  IN  IF ~launch_command_buffer.ok
                      THEN Created(launch_command_buffer, FALSE, <<>>, FALSE)
                      ELSE IF \E k \in DOMAIN launch_command_buffer.val :
                                  launch_command_buffer.val[k] = 0
                      THEN Created(Panicked, FALSE, launch_command_buffer.val, TRUE)
                      ELSE Created(create_service_result(~os_ok), TRUE,
                                   launch_command_buffer.val, FALSE)

\* launch_arguments.into_iter().map(escape).collect().join(" ")
RECURSIVE join_escaped(_, _)
join_escaped(launch_arguments, i) ==
    IF i > Len(launch_arguments) THEN <<>>
    ELSE IF i = Len(launch_arguments) THEN escape(launch_arguments[i])
    ELSE escape(launch_arguments[i]) \o <<SPACE>> \o join_escaped(launch_arguments, i + 1)

\* mullvad-service: ServiceManager::create_service(service_info, access);
\* the strings are converted unchecked and the OS is always called
mullvad_create_service(service_info, os_ok) ==
    LET launch_path == escape(service_info.executable_path)
        launch_arguments == join_escaped(service_info.launch_arguments, 1)
        launch_command == launch_path \o <<SPACE>> \o launch_arguments
    IN  Created(create_service_result(~os_ok), TRUE, launch_command, FALSE)

\* the strings of a ServiceInfo: without NUL and with a NUL inside
NameSamples == {<<97>>, <<97, 0, 98>>}
PathSamples == {<<97>>, <<97, SPACE, 98>>, <<97, 0, 98>>}
LaunchArgSamples ==
    {<<>>, <<97>>, <<97, SPACE, 98>>, <<98, DOUBLEQUOTE>>, <<BACKSLASH>>, <<97, 0, 98>>}
LaunchArgLists == UNION {[1..n -> LaunchArgSamples] : n \in 0..MaxLaunchArgs}

ServiceInfoSamples ==
    [name : NameSamples, display_name : NameSamples,
     account_name : OptionOf(NameSamples), account_password : OptionOf(NameSamples),
     executable_path : PathSamples, launch_arguments : LaunchArgLists]

\* service_manager.create_service(service_info, access) of windows-service
CreateService ==
    /\ call = NoCall
    /\ \E service_info \in ServiceInfoSamples, os_ok \in BOOLEAN :
        call' = [fn |-> "ServiceManager::create_service",
                 arg |-> [service_info |-> service_info, os_ok |-> os_ok],
                 out |-> create_service(service_info, os_ok)]
    /\ UNCHANGED <<held, transmitted>>
    /\ UNCHANGED <<handlerVars, removeVars>>

\* service_manager.create_service(service_info, access) of mullvad-service
MullvadCreateService ==
    /\ call = NoCall
    /\ \E service_info \in ServiceInfoSamples, os_ok \in BOOLEAN :
        call' = [fn |-> "mullvad::ServiceManager::create_service",
                 arg |-> [service_info |-> service_info, os_ok |-> os_ok],
                 out |-> mullvad_create_service(service_info, os_ok)]
    /\ UNCHANGED <<held, transmitted>>
    /\ UNCHANGED <<handlerVars, removeVars>>

NextCreate ==
    \/ CreateService
    \/ MullvadCreateService

(***************************************************************************)
(* SpecDispatch: one control event through the trampoline, for an          *)
(* application closure that returns any disposition.                       *)
(***************************************************************************)
DispositionSamples == {NoError, NotImplemented} \cup {Other(c) : c \in CodeSamples}

\* what the context may point to when the event arrives: the handler with its
\* status handle stored, the handler before the store, overwritten memory
ContextMemSamples ==
    {[state |-> "live", status_handle |-> TRUE],
     [state |-> "live", status_handle |-> FALSE],
     [state |-> "clobbered", status_handle |-> FALSE]}

\* service_control_handler(control, _, _, context) with a closure that
\* returns disposition
Dispatch ==
    /\ call = NoCall
    /\ \E control \in ControlCodeSamples, disposition \in DispositionSamples,
          mem \in ContextMemSamples :
        call' = [fn |-> "service_control_handler",
                 arg |-> [control |-> control, disposition |-> disposition,
                          mem |-> mem],
                 out |-> service_control_handler_calling(
                             control, mem, "live",
                             [c \in ServiceControls |->
                                 [result |-> disposition,
                                  send |-> FALSE, panic |-> FALSE]])]
    /\ UNCHANGED <<held, transmitted>>
    /\ UNCHANGED <<handlerVars, removeVars>>

NextDispatch ==
    \/ Dispatch

(***************************************************************************)
(* The specifications.  In each, the parts that are not running stay idle. *)
(***************************************************************************)
IdleHandler ==
    /\ pc = "idle"
    /\ proc = "running"
    /\ context = None
    /\ handlerAt = "none"
    /\ ctxMem = [state |-> "unallocated", status_handle |-> FALSE]
    /\ closureMem = "live"
    /\ queue = 0
    /\ signals = <<>>
    /\ events = 0
    /\ lastEvent = None

IdleRemove ==
    /\ rpc = "idle"
    /\ scm = "none"
    /\ svc = "none"
    /\ osState = "Running"
    /\ osDeleted = FALSE
    /\ trace = <<>>

\* a running service
Init == InitStatus /\ InitHandler /\ IdleRemove
Next == NextHandler
Spec == Init /\ [][Next]_vars

\* a running service whose entry thread keeps running: new goes on to store
\* the status handle and to return, and recv() returns once a message is there
SpecLive ==
    /\ Init
    /\ [][Next]_vars
    /\ WF_vars(StoreStatusHandle)
    /\ WF_vars(ReturnFromNew)
    /\ WF_vars(Recv)

\* the encoders, decoders and the accepted-controls builder
NextCodec ==
    \/ ExitCodeRoundTrip
    \/ StateEncodeDecode
    \/ StateDecode
    \/ AcceptBuild
InitCodec == InitStatus /\ IdleHandler /\ IdleRemove
SpecCodec == InitCodec /\ [][NextCodec]_vars

\* obtaining and reporting a status
NextStatus ==
    \/ StatusBuild
    \/ StatusConstruct
    \/ StatusMutate
    \/ StatusFromRaw
    \/ SetServiceStatus
SpecStatus == InitCodec /\ [][NextStatus]_vars

\* the status-returning calls on a service handle
SpecService == InitCodec /\ [][NextService]_vars

\* one control event through the trampoline
SpecDispatch == InitCodec /\ [][NextDispatch]_vars

\* the remove flows of the example and of mullvad-service
InitRemoveAll == InitStatus /\ IdleHandler /\ InitRemovers
SpecRemoveAll == InitRemoveAll /\ [][NextRemovers]_vars

\* creating a service
SpecCreate == InitCodec /\ [][NextCreate]_vars

\* the install and remove flows
InitInstallRemove == InitStatus /\ IdleHandler /\ InitFlows
SpecFlows == InitInstallRemove /\ [][NextFlows]_vars

\* decoding raw wide strings
SpecWide == InitCodec /\ [][NextWide]_vars

\* quoting a launch argument
SpecEscape == InitCodec /\ [][NextEscape]_vars

\* status and failure-policy conversions
SpecConv == InitCodec /\ [][NextConv]_vars

\* the remove-service flow
InitRemoveFlow == InitStatus /\ IdleHandler /\ InitRemove
SpecRemove == InitRemoveFlow /\ [][NextRemove]_vars

\* the remove-service flow when each of its steps is eventually taken: the
\* flow is sequential code on one thread, and every OS call and the sleep return
SpecRemoveLive ==
    /\ InitRemoveFlow
    /\ [][NextRemove]_vars
    /\ WF_vars(RConnect)
    /\ WF_vars(ROpen)
    /\ WF_vars(RQuery)
    /\ WF_vars(RDelete)
    /\ WF_vars(RStop)
    /\ WF_vars(RSleep)

(***************************************************************************)
(* The claims.                                                             *)
(***************************************************************************)

\* C1 (SpecCodec): for every exit code e, writing e with copy_to and reading it
\* back with from_raw_service_status gives e.
C1_ExitCodeRoundTrip ==
    call.fn = "ServiceExitCode::copy_to;from_raw_service_status"
        => call.out = call.arg

\* C2 (Spec): whenever the trampoline is invoked, the context the OS passes is
\* the address where the ServiceControlHandler value lives at that moment.
C2_ContextIsHandlerAddress ==
    IsSome(lastEvent)
        => Unwrap(lastEvent).context = Unwrap(lastEvent).handlerAt

ValidRawStatus(r) ==
    /\ \/ r.dwCheckPoint = 0
       \/ r.dwCurrentState \in
            {SERVICE_START_PENDING, SERVICE_STOP_PENDING,
             SERVICE_PAUSE_PENDING, SERVICE_CONTINUE_PENDING}
    /\ ~(/\ HasBit(r.dwControlsAccepted, SERVICE_ACCEPT_PRESHUTDOWN)
         /\ HasBit(r.dwControlsAccepted, SERVICE_ACCEPT_SHUTDOWN))

\* C3 (SpecStatus): every status that reaches the OS through set_service_status
\* is valid: its checkpoint is zero unless its state is one of the four pending
\* states, and it does not accept both preshutdown and shutdown; however the
\* value was obtained.
C3_TransmittedStatusValid ==
    IsSome(transmitted) => ValidRawStatus(Unwrap(transmitted))

\* C4 (SpecStatus): ServiceStatusBuilder's build fails whenever the state is
\* Stopped, Running or Paused and the checkpoint is not zero; with every field
\* set it succeeds, with the values given, for every checkpoint in the four
\* pending states and for checkpoint 0 in every state.
C4_StatusBuilderCheckpoint ==
    call.fn = "ServiceStatusBuilder::build" =>
        LET b == call.arg
            set == \A f \in StatusFields : IsSome(b[f])
        IN  /\ ( /\ IsSome(b.current_state) /\ IsSome(b.checkpoint)
                 /\ Unwrap(b.current_state) \in {"Stopped", "Running", "Paused"}
                 /\ Unwrap(b.checkpoint) # 0 )
                    => ~call.out.ok
            /\ ( /\ set
                 /\ \/ Unwrap(b.current_state) \in
                        {"StartPending", "StopPending", "PausePending",
                         "ContinuePending"}
                    \/ Unwrap(b.checkpoint) = 0 )
                    => /\ call.out.ok
                       /\ \A f \in StatusFields : call.out.val[f] = Unwrap(b[f])

\* C4's case: StopPending with checkpoint 5 was built.
C4_Witness ==
    /\ call.fn = "ServiceStatusBuilder::build"
    /\ call.arg.current_state = Some("StopPending")
    /\ call.arg.checkpoint = Some(5)
    /\ call.out.ok

\* C5 (SpecCodec): ServiceControlAcceptBuilder's build fails exactly when
\* preshutdown and shutdown are both set to true; every other combination
\* builds, and the built value has each flag as given (false when unset).
C5_AcceptBuilderExclusive ==
    call.fn = "ServiceControlAcceptBuilder::build" =>
        LET b == call.arg
        IN  /\ call.out.ok <=> ~(b.preshutdown = Some(TRUE) /\ b.shutdown = Some(TRUE))
            /\ call.out.ok =>
                \A f \in AcceptFields : call.out.val[f] = (b[f] = Some(TRUE))

\* C5's case: a build with both flags set was refused.
C5_Witness ==
    /\ call.fn = "ServiceControlAcceptBuilder::build"
    /\ call.arg.preshutdown = Some(TRUE)
    /\ call.arg.shutdown = Some(TRUE)
    /\ call.arg.stop = Some(TRUE)
    /\ ~call.out.ok

\* C6 (Spec): for a raw control code that is none of the eleven known ones the
\* trampoline returns ERROR_CALL_NOT_IMPLEMENTED and does not invoke the
\* application handler; for a known code it invokes the handler exactly once,
\* with the variant of that code.
C6_TrampolineDispatch ==
    IsSome(lastEvent) =>
        LET e == Unwrap(lastEvent)
        IN  IF e.control \notin KnownControlCodes
            THEN e.ret = Some(ERROR_CALL_NOT_IMPLEMENTED) /\ e.invoked = <<>>
            ELSE /\ Len(e.invoked) = 1
                 /\ ServiceControl_to_raw(e.invoked[1]) = e.control

\* C7 (SpecCodec): from_raw(s.to_raw()) is s for every run state s; a raw code
\* that decodes encodes back to itself; a raw code outside the seven known ones
\* gives InvalidServiceState with that code.
C7_StateRoundTrip ==
    /\ call.fn = "ServiceState::to_raw;from_raw" => call.out = Ok(call.arg)
    /\ call.fn = "ServiceState::from_raw" =>
        IF call.arg \in KnownStateCodes
        THEN call.out.ok /\ ServiceState_to_raw(call.out.val) = call.arg
        ELSE call.out = Err("InvalidServiceState", call.arg)

\* C7's case: Paused went through to_raw and from_raw.
C7_Witness ==
    /\ call.fn = "ServiceState::to_raw;from_raw"
    /\ call.arg = "Paused"
    /\ call.out.ok

\* C8 (Spec): over any sequence of control events, the shutdown channel is
\* signalled at most once.
C8_SignalledOnce == Len(signals) <= 1

\* C9 (Spec): once registration succeeded, handle_service_main has returned
\* only if the handler sent on the shutdown channel, and every send came from
\* handling a Stop or a Shutdown.
C9_ReturnsOnlyAfterStop ==
    pc = "returned" =>
        /\ Len(signals) >= 1
        /\ \A i \in DOMAIN signals : signals[i] \in {"Stop", "Shutdown"}

\* C9's case: the entry point returned after several events, one of which
\* signalled.
C9_Witness ==
    /\ pc = "returned"
    /\ Len(signals) = 1
    /\ events >= 2

OtherStates == ServiceStates \ {"Stopped", "StopPending"}

\* C10 (SpecRemove): in the poll loop, a QueryStatus that returned StopPending is
\* followed by the next QueryStatus, one that returned Stopped by Delete, one
\* that returned any other state by Stop; Delete is called at most once, only
\* directly after a QueryStatus that returned Stopped, and ends the loop; Stop
\* is sent only directly after a QueryStatus that returned another state.
C10_PollLoop ==
    /\ \A i \in DOMAIN trace :
        /\ trace[i][1] = "Delete" =>
            /\ i > 1 /\ trace[i - 1] = <<"QueryStatus", "Stopped">>
            /\ \A j \in DOMAIN trace :
                j > i => trace[j][1] \in {"CloseService", "CloseManager"}
        /\ trace[i][1] = "Stop" =>
            /\ i > 1
            /\ trace[i - 1][1] = "QueryStatus"
            /\ trace[i - 1][2] \in OtherStates
        /\ (trace[i][1] = "QueryStatus" /\ i < Len(trace)) =>
            CASE trace[i][2] = "StopPending" -> trace[i + 1][1] = "QueryStatus"
              [] trace[i][2] = "Stopped" -> trace[i + 1][1] = "Delete"
              [] trace[i][2] \in OtherStates -> trace[i + 1][1] = "Stop"
              [] OTHER -> trace[i + 1][1] = "CloseService"
    /\ Cardinality({i \in DOMAIN trace : trace[i][1] = "Delete"}) <= 1
    /\ rpc = "delete" => trace[Len(trace)] = <<"QueryStatus", "Stopped">>
    /\ rpc = "stop" =>
        /\ trace[Len(trace)][1] = "QueryStatus"
        /\ trace[Len(trace)][2] \in OtherStates

\* C10's case: the loop saw StopPending, sent a Stop and deleted the service.
C10_Witness ==
    /\ rpc = "done_ok"
    /\ \E i \in DOMAIN trace : trace[i] = <<"QueryStatus", "StopPending">>
    /\ \E i \in DOMAIN trace : trace[i][1] = "Stop"
    /\ \E i \in DOMAIN trace : trace[i][1] = "Delete"

KnownTypeCodes == {SERVICE_WIN32_OWN_PROCESS}

\* the failure modes of a status-returning call c: a failed syscall gives a
\* System error, an unknown type or state code gives the decode error carrying
\* it as a returned value, and a snapshot carries exactly the reported codes
StatusCallFailsClosed(c) ==
    LET raw == c.arg.raw_status
        knownType == raw.dwServiceType \in KnownTypeCodes
        knownState == raw.dwCurrentState \in KnownStateCodes
    IN  /\ ~c.arg.success => (~c.out.ok /\ c.out.err[1] = "System")
        /\ (c.arg.success /\ ~knownType) =>
                c.out = Err("InvalidServiceType", raw.dwServiceType)
        /\ (c.arg.success /\ knownType /\ ~knownState) =>
                c.out = Err("InvalidServiceState", raw.dwCurrentState)
        /\ (c.arg.success /\ knownType /\ knownState) =>
                /\ c.out.ok
                /\ ServiceState_to_raw(c.out.val.current_state) = raw.dwCurrentState
        /\ c.out.ok =>
                /\ c.arg.success
                /\ knownType
                /\ knownState

\* C11 (SpecService): query_status returns a System error when the syscall
\* fails, InvalidServiceType for a type code outside the enumeration,
\* InvalidServiceState for an unknown state code, and never a snapshot in
\* which an unknown code became a known variant.
C11_QueryStatusFailsClosed ==
    call.fn = "Service::query_status" => StatusCallFailsClosed(call)

\* C11's case: the syscall succeeded and reported a state code outside the
\* enumeration with a known type.
C11_Witness ==
    /\ call.fn = "Service::query_status"
    /\ call.arg.success
    /\ call.arg.raw_status.dwServiceType = SERVICE_WIN32_OWN_PROCESS
    /\ call.arg.raw_status.dwCurrentState = SERVICE_PAUSED + 1
    /\ ~call.out.ok

\* C12 (SpecService): every send_control_command of the repository has the
\* failure modes of query_status: a System error when the syscall fails, a
\* decode error returned as a value (no panic) when the post-command status
\* has an unknown type or state code, the post-command snapshot otherwise.
C12_SendControlFailsClosed ==
    call.fn \in {"Service::send_control_command",
                 "main::Service::send_control_command"}
        => StatusCallFailsClosed(call)

\* C13 (SpecDispatch): for a known control code, when the application handler
\* returned a disposition, the trampoline returns its raw translation: NO_ERROR
\* for NoError, ERROR_CALL_NOT_IMPLEMENTED for NotImplemented, code for
\* Other(code).
C13_DispositionTranslated ==
    ( /\ call.fn = "service_control_handler"
      /\ call.arg.control \in KnownControlCodes
      /\ call.out.invoked # <<>>
      /\ ~call.out.crash ) =>
        LET d == call.arg.disposition
        IN  call.out.ret =
                Some(CASE d.tag = "NoError" -> NO_ERROR
                       [] d.tag = "NotImplemented" -> ERROR_CALL_NOT_IMPLEMENTED
                       [] d.tag = "Other" -> d.code)

\* C13's case: a Stop was dispatched to a handler that returned Other(7).
C13_Witness ==
    /\ call.fn = "service_control_handler"
    /\ call.arg.control = SERVICE_CONTROL_STOP
    /\ call.arg.disposition = Other(7)
    /\ call.out.invoked = <<"Stop">>
    /\ call.out.ret = Some(7)

CountCalls(name) == Cardinality({i \in DOMAIN trace : trace[i][1] = name})
CountOk(name) == Cardinality({i \in DOMAIN trace : trace[i] = <<name, "ok">>})

\* C14 (SpecFlows): on every exit path of the install and remove flows each
\* handle that was obtained is closed exactly once, a handle is closed only
\* after it was obtained, and no OS call goes through a closed handle.
C14_HandlesClosedOnce ==
    /\ CountCalls("CloseManager") <= CountOk("Connect")
    /\ CountCalls("CloseService") <= CountOk("Open") + CountOk("Create")
    /\ rpc \in {"done_ok", "done_err"} =>
        /\ CountCalls("CloseManager") = CountOk("Connect")
        /\ CountCalls("CloseService") = CountOk("Open") + CountOk("Create")
        /\ scm \in {"none", "closed"}
        /\ svc \in {"none", "closed"}
    /\ \A i \in DOMAIN trace :
        /\ trace[i][1] = "CloseService" =>
            /\ \E j \in 1..(i - 1) : trace[j] \in {<<"Open", "ok">>, <<"Create", "ok">>}
            /\ \A j \in (i + 1)..Len(trace) :
                trace[j][1] \notin {"QueryStatus", "Stop", "Delete", "CloseService"}
        /\ trace[i][1] = "CloseManager" =>
            /\ \E j \in 1..(i - 1) : trace[j] = <<"Connect", "ok">>
            /\ \A j \in (i + 1)..Len(trace) :
                trace[j][1] \notin {"Open", "Create", "CloseManager"}
        /\ trace[i][1] \in {"QueryStatus", "Stop", "Delete"} => svc = "open" \/ i < Len(trace)

\* C14's case: the remove flow left on an error return from inside the loop,
\* after a Stop that failed, with both handles obtained.
C14_Witness ==
    /\ rpc = "done_err"
    /\ \E i \in DOMAIN trace : trace[i] = <<"Stop", "System">>
    /\ CountCalls("CloseService") = 1
    /\ CountCalls("CloseManager") = 1

\* the units of mem before its first zero among the first n, or the first n
Truncated(mem, n) ==
    LET zeros == {i \in 1..n : mem[i] = 0}
    IN  IF zeros = {} THEN SubSeq(mem, 1, n)
        ELSE SubSeq(mem, 1, (CHOOSE z \in zeros : \A y \in zeros : z <= y) - 1)

\* C15 (SpecWide): each argument the OS delivers to service_main is decoded
\* with an explicit bound: for an argument with no terminator within the bound
\* the decoded value is the argument truncated at the bound, and no unit at or
\* beyond the bound is read.
C15_ArgumentsBounded ==
    call.fn = "service_main" =>
        \A i \in DOMAIN call.arg :
            (\A k \in 1..ArgBound : call.arg[i][k] # 0) =>
                /\ ~call.out.crash
                /\ call.out.arguments[i] = SubSeq(call.arg[i], 1, ArgBound)
                /\ \A r \in call.out.reads[i] : r < ArgBound

\* C16 (SpecWide): from_raw_wide_string(buffer, max_length) returns the units
\* before the first zero among the first max_length units, or the first
\* max_length units when none is zero; the empty string when the first unit
\* is zero or max_length is 0; and reads no index at or beyond max_length.
C16_WideStringBounded ==
    call.fn = "from_raw_wide_string" =>
        LET mem == call.arg.mem
            max_length == call.arg.max_length
        IN  /\ ~call.out.crash
            /\ call.out.value = Truncated(mem, max_length)
            /\ (max_length = 0 \/ mem[1] = 0) => call.out.value = <<>>
            /\ \A r \in call.out.reads : r < max_length

\* C16's case: a buffer with no zero among its first max_length units, and a
\* non-zero unit right at the bound, was decoded to its first max_length units.
C16_Witness ==
    /\ call.fn = "from_raw_wide_string"
    /\ call.arg.max_length = ArgBound
    /\ \A k \in 1..(ArgBound + 1) : call.arg.mem[k] # 0
    /\ Len(call.out.value) = ArgBound

\* the Windows command-line rules on cmd from position i on: in_quotes is the
\* quoting mode, cur the token being collected, has_cur whether one is being
\* collected, tokens the finished ones.  2n backslashes before a quote give n
\* backslashes and a quote delimiter, 2n + 1 give n backslashes and a literal
\* quote, other backslashes are literal; a space outside quotes ends the token.
RECURSIVE Tokenize(_, _, _, _, _, _)
Tokenize(cmd, i, in_quotes, cur, has_cur, tokens) ==
    IF i > Len(cmd)
    THEN IF has_cur THEN Append(tokens, cur) ELSE tokens
    ELSE IF cmd[i] = BACKSLASH
    THEN LET n == CountSlashes(cmd, i)
             j == i + n
         IN  IF j <= Len(cmd) /\ cmd[j] = DOUBLEQUOTE
             THEN IF n % 2 = 0
                  THEN Tokenize(cmd, j + 1, ~in_quotes,
                                cur \o Repeat(BACKSLASH, n \div 2), TRUE, tokens)
                  ELSE Tokenize(cmd, j + 1, in_quotes,
                                cur \o Repeat(BACKSLASH, n \div 2) \o <<DOUBLEQUOTE>>,
                                TRUE, tokens)
             ELSE Tokenize(cmd, j, in_quotes, cur \o Repeat(BACKSLASH, n), TRUE, tokens)
    ELSE IF cmd[i] = DOUBLEQUOTE
    THEN Tokenize(cmd, i + 1, ~in_quotes, cur, TRUE, tokens)
    ELSE IF cmd[i] \in {SPACE, HTAB} /\ ~in_quotes
    THEN Tokenize(cmd, i + 1, in_quotes, <<>>, FALSE,
                  IF has_cur THEN Append(tokens, cur) ELSE tokens)
    ELSE Tokenize(cmd, i + 1, in_quotes, Append(cur, cmd[i]), TRUE, tokens)

\* C17 (SpecEscape): for every launch argument with at least one space or
\* double quote, tokenizing escape(argument) with the Windows command-line
\* rules gives exactly one token, the argument.
C17_EscapeRoundTrip ==
    ( /\ call.fn = "shell_escape::escape"
      /\ \E k \in DOMAIN call.arg : call.arg[k] \in {SPACE, DOUBLEQUOTE} ) =>
        Tokenize(call.out, 1, FALSE, <<>>, FALSE, <<>>) = <<call.arg>>

\* C17's case: an argument with a space, a quote and a trailing backslash was
\* quoted.
C17_Witness ==
    /\ call.fn = "shell_escape::escape"
    /\ call.arg = <<SPACE, DOUBLEQUOTE, BACKSLASH>>
    /\ call.out = <<DOUBLEQUOTE, SPACE, BACKSLASH, DOUBLEQUOTE,
                    BACKSLASH, BACKSLASH, DOUBLEQUOTE>>

\* C18 (SpecConv): to_raw transmits the wait hint as its length in
\* milliseconds, so that from_raw of the raw status gives the wait hint back.
C18_WaitHintMilliseconds ==
    call.fn = "ServiceStatus::to_raw;from_raw" =>
        /\ call.out.raw.dwWaitHint = call.arg.wait_hint
        /\ call.out.decoded.ok
        /\ call.out.decoded.val.wait_hint = call.arg.wait_hint

\* the error-control code the OS defines for each failure policy
OsErrorControlCode(policy) ==
    CASE policy = "Critical" -> SERVICE_ERROR_CRITICAL
      [] policy = "Ignore" -> SERVICE_ERROR_IGNORE
      [] policy = "Normal" -> SERVICE_ERROR_NORMAL
      [] policy = "Severe" -> SERVICE_ERROR_SEVERE

\* C19 (SpecConv): every conversion of a failure policy to its raw code, in
\* service.rs and in main.rs, gives the OS's constant for that policy, so the
\* codes of two different policies differ.
C19_ErrorControlCodes ==
    call.fn \in {"ServiceErrorControl::to_raw",
                 "main::From<ServiceErrorControl> for u32"} =>
        /\ call.out = OsErrorControlCode(call.arg)
        /\ \A other \in ServiceErrorControls \ {call.arg} :
                call.out # OsErrorControlCode(other)

\* C20 (Spec): whenever the trampoline is invoked, the ServiceControlHandler
\* and its closure still exist: no control event is dispatched after
\* handle_service_main returned and dropped them.
C20_NoEventAfterDrop ==
    IsSome(lastEvent) => Unwrap(lastEvent).handlerAt # "dropped"

\* C21 (Spec): no control event reaches handle_event's unwrap while the
\* status handle is unset, whatever the interleaving of the registering thread
\* and the dispatch thread.  (status_handle is only ever set, so an unset one
\* after a known control was dispatched was unset when it was dispatched.)
C21_NoEventBeforeStatusHandle ==
    ~( /\ IsSome(lastEvent)
       /\ Unwrap(lastEvent).control \in KnownControlCodes
       /\ ~ctxMem.status_handle )

\* the model's poll budget is used up: the OS has not reported Stopped in time
PollBudgetExhausted == rpc = "query" /\ Polls(trace) >= MaxPolls

StopDelivered ==
    /\ IsSome(lastEvent)
    /\ Unwrap(lastEvent).control \in {SERVICE_CONTROL_STOP, SERVICE_CONTROL_SHUTDOWN}

\* C23 (SpecLive): once registration succeeded, a Stop or Shutdown delivered to
\* the trampoline is acknowledged to the OS at once (NO_ERROR is returned), and
\* handle_service_main eventually unblocks and returns.
C23_StopUnblocksEntryPoint ==
    /\ [](StopDelivered => Unwrap(lastEvent).ret = Some(NO_ERROR))
    /\ (StopDelivered ~> pc = "returned")

\* C24 (SpecRemoveAll): a remove-service flow returns Ok only if Delete was
\* called on the service entry and succeeded, in the example and in main.rs.
C24_SuccessMeansDeleted ==
    rpc = "done_ok" =>
        /\ osDeleted
        /\ \E i \in DOMAIN trace : trace[i] = <<"Delete", "ok">>

FailureResults == {"System", "InvalidServiceType", "InvalidServiceState"}

\* C25 (SpecRemove): the first failing call of the remove flow ends it at once
\* with an error: after a failed call only the handles are closed, so the call
\* is not retried and no Delete follows a failed QueryStatus or Stop.
C25_FirstFailureEndsFlow ==
    \A i \in DOMAIN trace :
        trace[i][2] \in FailureResults =>
            /\ rpc = "done_err"
            /\ \A j \in (i + 1)..Len(trace) :
                trace[j][1] \in {"CloseService", "CloseManager"}

\* C25's case: a QueryStatus failed after a Stop had been accepted, and the
\* flow ended with the two handles closed.
C25_Witness ==
    /\ rpc = "done_err"
    /\ Len(trace) >= 4
    /\ \E i \in DOMAIN trace : trace[i] = <<"Stop", "ok">>
    /\ trace[Len(trace) - 2] = <<"QueryStatus", "System">>
    /\ trace[Len(trace) - 1][1] = "CloseService"

\* the first character of s after position k that is not a backslash, or 0
\* when only backslashes follow up to the end
RECURSIVE AfterRun(_, _)
AfterRun(s, k) ==
    IF k >= Len(s) THEN 0
    ELSE IF s[k + 1] = BACKSLASH THEN AfterRun(s, k + 1)
    ELSE s[k + 1]

\* what the reference writes for the character at position k: a backslash is
\* doubled when its run is followed by a double quote or ends the argument; a
\* double quote gets one more backslash in front; anything else is copied
ReferencePiece(s, k) ==
    IF s[k] = BACKSLASH
    THEN IF AfterRun(s, k) \in {DOUBLEQUOTE, 0}
         THEN <<BACKSLASH, BACKSLASH>>
         ELSE <<BACKSLASH>>
    ELSE IF s[k] = DOUBLEQUOTE THEN <<BACKSLASH, DOUBLEQUOTE>>
    ELSE <<s[k]>>

RECURSIVE ReferenceBody(_, _)
ReferenceBody(s, k) ==
    IF k > Len(s) THEN <<>> ELSE ReferencePiece(s, k) \o ReferenceBody(s, k + 1)

EscapeReference(s) ==
    IF \A k \in DOMAIN s :
            s[k] \notin {SPACE, LINEFEED, HTAB, VTAB, DOUBLEQUOTE}
    THEN s
    ELSE <<DOUBLEQUOTE>> \o ReferenceBody(s, 1) \o <<DOUBLEQUOTE>>

\* C26 (SpecEscape): escape equals the reference for every input: unchanged
\* without space, line feed, tab, vertical tab or double quote; otherwise in
\* one pair of double quotes, a run of n backslashes written as 2n + 1 before
\* a double quote, 2n at the end, n elsewhere, every other character copied.
C26_EscapeIsReference ==
    call.fn = "shell_escape::escape" => call.out = EscapeReference(call.arg)

\* C26's case: a tab, a backslash before a double quote, and a backslash at
\* the end.
C26_Witness ==
    /\ call.fn = "shell_escape::escape"
    /\ call.arg = <<HTAB, BACKSLASH, DOUBLEQUOTE, BACKSLASH>>
    /\ Len(call.out) = 9

HasNul(str) == \E k \in DOMAIN str : str[k] = 0

\* the error the claim gives for a ServiceInfo, "none" when every string is
\* free of NUL: the first of name, display name, account name, account
\* password, executable path, launch arguments that has a NUL inside
ExpectedInvalid(info) ==
    IF HasNul(info.name) THEN "InvalidServiceName"
    ELSE IF HasNul(info.display_name) THEN "InvalidDisplayName"
    ELSE IF IsSome(info.account_name) /\ HasNul(Unwrap(info.account_name))
    THEN "InvalidAccountName"
    ELSE IF IsSome(info.account_password) /\ HasNul(Unwrap(info.account_password))
    THEN "InvalidAccountPassword"
    ELSE IF HasNul(info.executable_path) THEN "InvalidExecutablePath"
    ELSE IF \E i \in DOMAIN info.launch_arguments : HasNul(info.launch_arguments[i])
    THEN "InvalidLaunchArgument"
    ELSE "none"

\* C27 (SpecCreate): create_service returns the matching Invalid* error,
\* checked in the order name, display name, account name, account password,
\* executable path, launch arguments, without calling the OS; when the OS
\* returns a null handle it returns a System error and no Service; otherwise
\* it returns the Service.
C27_CreateAllOrNothing ==
    call.fn = "ServiceManager::create_service" =>
        LET expected == ExpectedInvalid(call.arg.service_info)
        IN  IF expected # "none"
            THEN /\ call.out.result = Err(expected, 0)
                 /\ ~call.out.os_called
            ELSE /\ call.out.os_called
                 /\ call.out.result =
                        IF call.arg.os_ok THEN Ok("Service") ELSE Err("System", 0)

\* C27's case: the account password and a launch argument both have a NUL
\* inside; the password's error is returned and the OS is not called.
C27_Witness ==
    /\ call.fn = "ServiceManager::create_service"
    /\ call.arg.service_info.account_name = Some(<<97>>)
    /\ call.arg.service_info.account_password = Some(<<97, 0, 98>>)
    /\ Len(call.arg.service_info.launch_arguments) = 1
    /\ HasNul(call.arg.service_info.launch_arguments[1])
    /\ call.out.result = Err("InvalidAccountPassword", 0)
    /\ ~call.out.os_called

\* C28 (SpecCreate): tokenizing the launch command that create_service hands
\* to the OS gives the executable path followed by the launch arguments, the
\* same ones in the same order.
C28_LaunchCommandRoundTrip ==
    ( /\ call.fn \in {"ServiceManager::create_service",
                       "mullvad::ServiceManager::create_service"}
      /\ call.out.os_called
      /\ ~HasNul(call.out.launch_command) ) =>
        Tokenize(call.out.launch_command, 1, FALSE, <<>>, FALSE, <<>>)
            = <<call.arg.service_info.executable_path>>
                \o call.arg.service_info.launch_arguments

\* C30 (SpecCreate): the unwrap on the assembled launch command never fails:
\* whenever that line is reached the command has no NUL unit.
C30_LaunchCommandUnwrap ==
    call.fn = "ServiceManager::create_service" =>
        /\ ~call.out.panicked
        /\ call.out.result # Panicked
        /\ ~HasNul(call.out.launch_command)

\* C30's case: the line was reached with a quoted path and two launch
\* arguments, one of them quoted.
C30_Witness ==
    /\ call.fn = "ServiceManager::create_service"
    /\ call.out.os_called
    /\ call.arg.service_info.executable_path = <<97, SPACE, 98>>
    /\ call.arg.service_info.launch_arguments = <<(<<98, DOUBLEQUOTE>>), (<<97>>)>>
    /\ Len(call.out.launch_command) = 13

\* C29 (SpecRemove): every operation the remove flow issues through its
\* service handle (QueryStatus, Stop, Delete) has its right in the access set
\* the handle was opened with, and none of them is refused for a missing right.
C29_RemoveRightsRequested ==
    \A i \in DOMAIN trace :
        trace[i][1] \in {"QueryStatus", "Stop", "Delete"} =>
            /\ RequiredRight(trace[i][1]) \in remove_service_access
            /\ trace[i][2] # "AccessDenied"

\* C29's case: a run of the flow that used all three operations and deleted
\* the service.
C29_Witness ==
    /\ rpc = "done_ok"
    /\ \E i, j, k \in DOMAIN trace :
        /\ i < j /\ j < k
        /\ trace[i][1] = "QueryStatus"
        /\ trace[j] = <<"Stop", "ok">>
        /\ trace[k] = <<"Delete", "ok">>

====
